---- MODULE Spec2Model ----
(***************************************************************************)
(* Model of the Constitution chatbot: load_articles (the line-by-line      *)
(* article extractor) and get_answer (the query resolver), as run by the   *)
(* command-line program pdf_bot_new.py and by the Flask application        *)
(* app1.py.  Text is modelled by TLA+ strings, character by character:     *)
(* Len, SubSeq and \o work on strings, and every regular expression of the *)
(* source is an operator that matches the way Python's re module does.     *)
(***************************************************************************)
EXTENDS Integers, Sequences, FiniteSets, TLC

(***************************************************************************)
(* Characters and the str methods the source uses.                         *)
(***************************************************************************)
None == "None"

\* s[a-1:b] of Python: the characters of s at positions a..b, clipped to s.
Sub(s, a, b) ==
    LET lo == IF a < 1 THEN 1 ELSE a
        hi == IF b > Len(s) THEN Len(s) ELSE b
    IN  IF lo > hi THEN "" ELSE SubSeq(s, lo, hi)

At(s, k) == IF k >= 1 /\ k <= Len(s) THEN SubSeq(s, k, k) ELSE ""

From(s, k) == Sub(s, k, Len(s))

UpperAlphabet == "ABCDEFGHIJKLMNOPQRSTUVWXYZ"

LowerAlphabet == "abcdefghijklmnopqrstuvwxyz"

Digits == {"0", "1", "2", "3", "4", "5", "6", "7", "8", "9"}

UpperLetters == {At(UpperAlphabet, k) : k \in 1..Len(UpperAlphabet)}

LowerLetters == {At(LowerAlphabet, k) : k \in 1..Len(LowerAlphabet)}

Whitespace == {" ", "\t", "\n", "\r", "\f"}

RomanLetters == {"I", "V", "X", "L", "C"}

IsDigit(c) == c \in Digits

IsSpace(c) == c \in Whitespace

AlphabetIndex(c, alphabet) == CHOOSE k \in 1..Len(alphabet) : At(alphabet, k) = c

lower_char(c) ==
    IF c \in UpperLetters THEN At(LowerAlphabet, AlphabetIndex(c, UpperAlphabet)) ELSE c

upper_char(c) ==
    IF c \in LowerLetters THEN At(UpperAlphabet, AlphabetIndex(c, LowerAlphabet)) ELSE c

RECURSIVE lower(_)
lower(s) == IF s = "" THEN "" ELSE lower_char(At(s, 1)) \o lower(From(s, 2))

RECURSIVE upper(_)
upper(s) == IF s = "" THEN "" ELSE upper_char(At(s, 1)) \o upper(From(s, 2))

RECURSIVE lstrip(_)
lstrip(s) == IF s # "" /\ IsSpace(At(s, 1)) THEN lstrip(From(s, 2)) ELSE s

RECURSIVE rstrip(_)
rstrip(s) ==
    IF s # "" /\ IsSpace(At(s, Len(s))) THEN rstrip(Sub(s, 1, Len(s) - 1)) ELSE s

strip(s) == rstrip(lstrip(s))

\* The position of the first occurrence of sep in s at or after k, 0 when none.
RECURSIVE find(_, _, _)
find(s, sep, k) ==
    IF k + Len(sep) - 1 > Len(s) THEN 0
    ELSE IF Sub(s, k, k + Len(sep) - 1) = sep THEN k
    ELSE find(s, sep, k + 1)

contains(s, sub) == find(s, sub, 1) # 0

startswith(s, k, word) == Sub(s, k, k + Len(word) - 1) = word

RECURSIVE split(_, _)
split(s, sep) ==
    LET p == find(s, sep, 1)
    IN  IF p = 0 THEN <<s>>
        ELSE <<Sub(s, 1, p - 1)>> \o split(From(s, p + Len(sep)), sep)

RECURSIVE join(_, _)
join(sep, parts) ==
    IF parts = <<>> THEN ""
    ELSE IF Len(parts) = 1 THEN parts[1]
    ELSE parts[1] \o sep \o join(sep, Tail(parts))

\* Python truthiness of a value that is None or a string.
truthy(v) == v # None /\ v # ""

(***************************************************************************)
(* Regular-expression pieces.  run(s, k, class) is the number of           *)
(* consecutive characters of s from position k that lie in class: what a   *)
(* greedy class+ or class* consumes.                                        *)
(***************************************************************************)
RECURSIVE run(_, _, _)
run(s, k, class) ==
    IF k <= Len(s) /\ At(s, k) \in class THEN 1 + run(s, k + 1, class) ELSE 0

\* (\d+\[)? at position 1: the length of the bracketed prefix, 0 when absent.
prefix_len(s) ==
    LET d == run(s, 1, Digits)
    IN  IF d >= 1 /\ At(s, d + 1) = "[" THEN d + 1 ELSE 0

NoMatch == [ok |-> FALSE, prefix |-> None, num |-> None, content |-> None]

\* (\d+[A-Z]?)\.\s+(.*) from position k, after a prefix of length k - 1.
art_core(s, k) ==
    LET d  == run(s, k, Digits)
        a  == IF At(s, k + d) \in UpperLetters THEN 1 ELSE 0
        e  == k + d + a
        w  == run(s, e + 1, Whitespace)
    IN  IF d >= 1 /\ At(s, e) = "." /\ w >= 1
        THEN [ok      |-> TRUE,
              prefix  |-> IF k > 1 THEN Sub(s, 1, k - 1) ELSE None,
              num     |-> Sub(s, k, e - 1),
              content |-> From(s, e + 1 + w)]
        ELSE NoMatch

\* art_pattern.match(line): ^(\d+\[)?(\d+[A-Z]?)\.\s+(.*)
art_pattern(s) ==
    LET p == prefix_len(s)
    IN  IF p > 0 /\ art_core(s, p + 1).ok THEN art_core(s, p + 1) ELSE art_core(s, 1)

footnote_keywords == <<"Subs.", "Ins.", "Omitted", "Rep.", "Added", "Substituted", "Inserted">>

\* One keyword of the alternation at position k; its "." is the regex dot,
\* which matches any character except a newline.
RECURSIVE keyword_at(_, _, _)
keyword_at(s, k, word) ==
    IF word = "" THEN TRUE
    ELSE /\ k <= Len(s)
         /\ IF At(word, 1) = "." THEN At(s, k) # "\n" ELSE At(s, k) = At(word, 1)
         /\ keyword_at(s, k + 1, From(word, 2))

\* footnote_regex.match(line): ^\d+\.\s+(Subs.|Ins.|Omitted|Rep.|Added|Substituted|Inserted)
footnote_regex(s) ==
    LET d == run(s, 1, Digits)
        w == run(s, d + 2, Whitespace)
    IN  /\ d >= 1
        /\ At(s, d + 1) = "."
        /\ w >= 1
        /\ \E n \in 1..Len(footnote_keywords) : keyword_at(s, d + 2 + w, footnote_keywords[n])

\* (PART\s+[IVXLC]+|CHAPTER\s+[IVXLC]+) at position k.
structure_core(s, k) ==
    \E word \in {"PART", "CHAPTER"} :
        LET w == run(s, k + Len(word), Whitespace)
        IN  /\ startswith(s, k, word)
            /\ w >= 1
            /\ run(s, k + Len(word) + w, RomanLetters) >= 1

\* structure_pattern.match(line): ^(\d+\[)?(PART\s+[IVXLC]+|CHAPTER\s+[IVXLC]+)
structure_pattern(s) ==
    \/ (prefix_len(s) > 0 /\ structure_core(s, prefix_len(s) + 1))
    \/ structure_core(s, 1)

\* re.search(r'[A-Za-z]', content_part)
has_letter(s) == \E k \in 1..Len(s) : At(s, k) \in UpperLetters \cup LowerLetters

\* re.match(r'^\d+$', line)
page_number(s) == Len(s) >= 1 /\ run(s, 1, Digits) = Len(s)

\* re.match(r'^\d+\s+\d+$', line)
page_artifact(s) ==
    LET d == run(s, 1, Digits)
        w == run(s, d + 1, Whitespace)
        e == run(s, d + w + 1, Digits)
    IN  d >= 1 /\ w >= 1 /\ e >= 1 /\ d + w + e = Len(s)

(***************************************************************************)
(* get_answer, the query resolver.                                         *)
(***************************************************************************)
NOT_FOUND == "The requested article is not found in the document."

FALLBACK == "The document does not contain this information."

\* id_at without the optional letter suffix.
id_at_digits_only(q, k) ==
    LET d == run(q, k, Digits)
    IN  IF d >= 1 THEN Sub(q, k, k + d - 1) ELSE None

\* (\d+[a-z]?) at position k: the captured text, None when no digit is there.
id_at(q, k) ==
    LET d == run(q, k, Digits)
        a == IF At(q, k + d) \in LowerLetters THEN 1 ELSE 0
    IN  IF d >= 1 THEN Sub(q, k, k + d + a - 1) ELSE None

\* \s*(\d+[a-z]?) at position k.
spaced_id_at(q, k) == id_at(q, k + run(q, k, Whitespace))

\* keyword_ref_at that takes no period after "art".
keyword_ref_at_no_period(q, p) ==
    IF startswith(q, p, "article") /\ spaced_id_at(q, p + 7) # None
    THEN spaced_id_at(q, p + 7)
    ELSE IF startswith(q, p, "art") THEN spaced_id_at(q, p + 3)
    ELSE None

\* (?:article|art\.?)\s*(\d+[a-z]?) anchored at position p: group 1, or None.
\* The alternatives are tried in the order of the pattern.
keyword_ref_at(q, p) ==
    IF ~startswith(q, p, "art") THEN None
    ELSE LET long == IF startswith(q, p, "article") THEN spaced_id_at(q, p + 7) ELSE None
             dot  == IF At(q, p + 3) = "." THEN spaced_id_at(q, p + 4) ELSE None
         IN  IF long # None THEN long
             ELSE IF dot # None THEN dot
             ELSE spaced_id_at(q, p + 3)

\* re.search(r'(?:article|art\.?)\s*(\d+[a-z]?)', q): group 1 of the leftmost
\* match, or None.
RECURSIVE search_from(_, _)
search_from(q, p) ==
    IF p > Len(q) THEN None
    ELSE LET id == keyword_ref_at(q, p)
         IN  IF id # None THEN id ELSE search_from(q, p + 1)

article_ref(q) == search_from(q, 1)

\* bare_ref that accepts digits only.
bare_ref_digits_only(q) == page_number(q)

\* re.match(r'^\d+[a-z]?$', q); q is stripped, so $ is the end of q.
bare_ref(q) == id_at(q, 1) # None /\ id_at(q, 1) = q

\* The two identical lookup branches of get_answer.
lookup(key, articles) ==
    IF key \in DOMAIN articles
    THEN "Article " \o key \o "\n\n" \o articles[key]
    ELSE NOT_FOUND

\* lookup_key that leaves the captured id in lower case.
lookup_key_no_upper(q) ==
    IF article_ref(q) # None THEN article_ref(q)
    ELSE IF bare_ref(q) THEN q
    ELSE None

\* The lookup key get_answer derives from the normalized query, None when
\* neither pattern matches.
lookup_key(q) ==
    LET id == article_ref(q)
    IN  IF id # None THEN upper(id)
        ELSE IF bare_ref(q) THEN upper(q)
        ELSE None

\* normalize without the lower-casing.
normalize_no_lower(query) == strip(query)

normalize(query) == lower(strip(query))

\* get_answer whose last return gives the not-found message.
get_answer_one_message(query, articles) ==
    LET key == lookup_key(normalize(query))
    IN  IF key # None THEN lookup(key, articles) ELSE NOT_FOUND

get_answer(query, articles) ==
    LET key == lookup_key(normalize(query))
    IN  IF key # None THEN lookup(key, articles) ELSE FALLBACK

(***************************************************************************)
(* Inputs.  The document is the text pypdf extracts from each page; a page *)
(* with no extractable text yields "".  Pages before start_page_index are  *)
(* the front matter, pages from it on are drawn from PageTexts.            *)
(***************************************************************************)
start_page_index == 20

MaxPages == 2

FrontTexts == {"", "CONTENTS\n21. Life\n9. Front"}

\* A page whose extract_text() raises: the page cannot be parsed.
PageError == "PdfReadError"

PageTexts ==
    { "",
      "21. Life\nNo person",
      "PART IV",
      "3[21A. Edu\n12\nfree",
      "21. Dup\nmore",
      "1. Subs. by Act\n2. x Amendment) Act",
      "  \n 22. Arrest \r\n12 34\n(1) No",
      "5. 1976\n4. w.e.f. 1977\n395. Repeals",
      "3[CHAPTER II\ntext",
      "21. Life\nPART IV\n3[21. Dup\ntail",
      "21A. Edu2",
      "21. Life\n1. Ins. by\n21. Dup\nrest",
      PageError }

\* Command lines of pdf_bot_new.py (sys.argv[1:]).
Argvs ==
    { <<"Article", "21">>, <<"Article", "21A">>, <<"Article", "22">>,
      <<"article", "21">>, <<"article", "21A">>, <<"article", "22">>, <<"article", "7">>,
      <<"ARTICLE", "21A">>, <<"article", "21a">>, <<"ART.21">>,
      <<"21">>, <<"21A">>, <<"21a">>, <<"22">>, <<"7">>,
      <<"what", "is", "democracy">>, <<"art.", "21">>, <<"article.", "21">>,
      <<"", "Art 22 ">>, <<"party", "21">>, <<"show", "art.", "21a">> }

\* Values of the "message" field of a POST /chat body; None when absent.
Messages == {None, "", " 21 ", "Article 21", "art 21a", "21A", "what is democracy"}

MaxHandlers == 2

Handlers == 1..MaxHandlers

NoRequest == "NoRequest"

NoResponse == <<>>

EmptyStore == [k \in {} |-> ""]

VARIABLES
    pdf_ok,             \* pypdf.PdfReader(pdf_path) succeeds
    reader,             \* reader.pages[k - 1].extract_text(), k in 1..len(reader.pages)
    pc,                 \* position of the main thread of the program
    i,                  \* page index of the scan
    lines,              \* lines of the current page not yet processed
    line,               \* the line last processed, stripped
    current_art_num,
    current_art_text,
    seen_articles,
    articles,           \* the dictionary load_articles builds
    arts,               \* the caller's store: arts (pdf_bot_new.py), global articles (app1.py)
    returned,           \* the stores returned by the calls of load_articles so far
    query,              \* pdf_bot_new.py: " ".join(sys.argv[1:])
    output,             \* pdf_bot_new.py: the text printed
    request,            \* app1.py: per handler, the message of the request in progress
    response            \* app1.py: per handler, the response returned

scan_vars == <<i, lines, line, current_art_num, current_art_text, seen_articles, articles>>

cli_vars == <<query, output>>

web_vars == <<request, response>>

vars == <<pdf_ok, reader, pc, i, lines, line, current_art_num, current_art_text,
          seen_articles, articles, arts, returned, query, output, request, response>>

Document(n, front, body) ==
    [k \in 1..n |-> IF k <= start_page_index THEN front ELSE body[k - start_page_index]]

Init ==
    /\ pdf_ok \in BOOLEAN
    /\ IF pdf_ok
       THEN \E n \in 0..(start_page_index + MaxPages), front \in FrontTexts :
                \E body \in [1..(n - start_page_index) -> PageTexts] :
                    reader = Document(n, front, body)
       ELSE reader = <<>>
    /\ pc = "start"
    /\ i = 0
    /\ lines = <<>>
    /\ line = ""
    /\ current_art_num = None
    /\ current_art_text = <<>>
    /\ seen_articles = {}
    /\ articles = EmptyStore
    /\ arts = EmptyStore
    /\ returned = <<>>
    /\ query = None
    /\ output = None
    /\ request = [h \in Handlers |-> NoRequest]
    /\ response = [h \in Handlers |-> NoResponse]

(***************************************************************************)
(* load_articles.                                                          *)
(***************************************************************************)
\* A seen set that outlives the call (a module-level set).
stale_seen == seen_articles

\* seen_articles = set(), a local of each call.
fresh_seen == {}

\* LoadFails that swallows the exception and goes on with no pages.
LoadFails_swallowed ==
    /\ pc = "start"
    /\ ~pdf_ok
    /\ pc' = "page_loop"
    /\ UNCHANGED <<pdf_ok, reader, i, lines, line, current_art_num, current_art_text,
                   seen_articles, articles, arts, returned, query, output, request, response>>

\* except-branch of PdfReader(pdf_path): print the error, sys.exit(1).
LoadFails ==
    /\ pc = "start"
    /\ ~pdf_ok
    /\ pc' = "exit_1"
    /\ UNCHANGED <<pdf_ok, reader, scan_vars, arts, returned, cli_vars, web_vars>>

\* LoadStart that scans from the first page of the document.
LoadStart_from_zero ==
    /\ pc = "start"
    /\ pdf_ok
    /\ articles' = EmptyStore
    /\ current_art_num' = None
    /\ current_art_text' = <<>>
    /\ i' = 0
    /\ seen_articles' = fresh_seen
    /\ lines' = <<>>
    /\ line' = ""
    /\ pc' = "page_loop"
    /\ UNCHANGED <<pdf_ok, reader, arts, returned, cli_vars, web_vars>>

\* The call of load_articles up to the page loop: the locals are initialized.
LoadStart ==
    /\ pc = "start"
    /\ pdf_ok
    /\ articles' = EmptyStore
    /\ current_art_num' = None
    /\ current_art_text' = <<>>
    /\ i' = start_page_index
    /\ seen_articles' = fresh_seen
    /\ lines' = <<>>
    /\ line' = ""
    /\ pc' = "page_loop"
    /\ UNCHANGED <<pdf_ok, reader, arts, returned, cli_vars, web_vars>>

\* for i in range(start_page_index, len(reader.pages)): a page with text.
NextPage ==
    /\ pc = "page_loop"
    /\ i < Len(reader)
    /\ reader[i + 1] # PageError
    /\ truthy(reader[i + 1])
    /\ lines' = split(reader[i + 1], "\n")
    /\ pc' = "line_loop"
    /\ UNCHANGED <<pdf_ok, reader, i, line, current_art_num, current_art_text,
                   seen_articles, articles, arts, returned, cli_vars, web_vars>>

\* page.extract_text() raises; nothing catches it: traceback, exit status 1.
PageFails ==
    /\ pc = "page_loop"
    /\ i < Len(reader)
    /\ reader[i + 1] = PageError
    /\ pc' = "exit_1"
    /\ UNCHANGED <<pdf_ok, reader, scan_vars, arts, returned, cli_vars, web_vars>>

\* SkipEmptyPage that ends the article in progress.
SkipEmptyPage_resets ==
    /\ pc = "page_loop"
    /\ i < Len(reader)
    /\ ~truthy(reader[i + 1])
    /\ i' = i + 1
    /\ current_art_num' = None
    /\ current_art_text' = <<>>
    /\ UNCHANGED <<pdf_ok, reader, pc, lines, line, seen_articles, articles, arts,
                   returned, cli_vars, web_vars>>

\* if not text: continue
SkipEmptyPage ==
    /\ pc = "page_loop"
    /\ i < Len(reader)
    /\ ~truthy(reader[i + 1])
    /\ i' = i + 1
    /\ UNCHANGED <<pdf_ok, reader, pc, lines, line, current_art_num, current_art_text,
                   seen_articles, articles, arts, returned, cli_vars, web_vars>>

\* The inner loop is exhausted: on to the next page.
EndPage ==
    /\ pc = "line_loop"
    /\ lines = <<>>
    /\ i' = i + 1
    /\ pc' = "page_loop"
    /\ UNCHANGED <<pdf_ok, reader, lines, line, current_art_num, current_art_text,
                   seen_articles, articles, arts, returned, cli_vars, web_vars>>

\* finalize that joins the lines without the newline.
finalize_no_newline(store, num, text) ==
    [k \in DOMAIN store \cup {num} |-> IF k = num THEN strip(join("", text)) ELSE store[k]]

\* articles[current_art_num] = "\n".join(current_art_text).strip()
finalize(store, num, text) ==
    [k \in DOMAIN store \cup {num} |-> IF k = num THEN strip(join("\n", text)) ELSE store[k]]

\* is_footnote without heuristic b).
is_footnote_no_amendment(l, content_part) ==
    footnote_regex(l) \/ ~has_letter(content_part)

\* The footnote heuristics a), b), c) applied to a line art_pattern matched.
is_footnote(l, content_part) ==
    \/ footnote_regex(l)
    \/ contains(content_part, "Amendment) Act") \/ contains(content_part, "w.e.f.")
    \/ ~has_letter(content_part)

\* already_seen that knows the finalized articles only.
already_seen_stored(art_num_candidate, seen) == art_num_candidate \in DOMAIN articles

\* already_seen that never rejects.
never_seen(art_num_candidate, seen) == FALSE

\* if art_num_candidate in seen_articles
already_seen(art_num_candidate, seen) == art_num_candidate \in seen

\* page_noise that drops nothing.
page_noise_none(l) == FALSE

\* The page-number and page-artifact tests of a continuation line.
page_noise(l) == page_number(l) \/ page_artifact(l)

\* The line the inner loop processes next: line = line.strip().
next_line == strip(Head(lines))

AtLine == pc = "line_loop" /\ lines # <<>>

Consume == lines' = Tail(lines) /\ line' = next_line

\* if not line: continue
BlankLine ==
    /\ AtLine
    /\ ~truthy(next_line)
    /\ Consume
    /\ UNCHANGED <<pdf_ok, reader, pc, i, current_art_num, current_art_text,
                   seen_articles, articles, arts, returned, cli_vars, web_vars>>

\* 1. structure header: stop the accumulation of the current article.
StructureHeader ==
    /\ AtLine
    /\ truthy(next_line)
    /\ structure_pattern(next_line)
    /\ IF truthy(current_art_num)
       THEN /\ articles' = finalize(articles, current_art_num, current_art_text)
            /\ current_art_num' = None
            /\ current_art_text' = <<>>
       ELSE UNCHANGED <<articles, current_art_num, current_art_text>>
    /\ Consume
    /\ UNCHANGED <<pdf_ok, reader, pc, i, seen_articles, arts, returned, cli_vars, web_vars>>

IsArticleLine(l) == truthy(l) /\ ~structure_pattern(l) /\ art_pattern(l).ok

\* 2. article start rejected by the footnote heuristics.
FootnoteLine ==
    /\ AtLine
    /\ IsArticleLine(next_line)
    /\ is_footnote(next_line, art_pattern(next_line).content)
    /\ Consume
    /\ UNCHANGED <<pdf_ok, reader, pc, i, current_art_num, current_art_text,
                   seen_articles, articles, arts, returned, cli_vars, web_vars>>

\* 2. article start rejected because its number was seen before.
DuplicateLine ==
    /\ AtLine
    /\ IsArticleLine(next_line)
    /\ ~is_footnote(next_line, art_pattern(next_line).content)
    /\ already_seen(art_pattern(next_line).num, seen_articles)
    /\ Consume
    /\ UNCHANGED <<pdf_ok, reader, pc, i, current_art_num, current_art_text,
                   seen_articles, articles, arts, returned, cli_vars, web_vars>>

\* ArticleStart that does not mark the id as seen.
ArticleStart_unseen ==
    /\ AtLine
    /\ IsArticleLine(next_line)
    /\ ~is_footnote(next_line, art_pattern(next_line).content)
    /\ ~already_seen(art_pattern(next_line).num, seen_articles)
    /\ articles' = IF truthy(current_art_num)
                   THEN finalize(articles, current_art_num, current_art_text)
                   ELSE articles
    /\ current_art_num' = art_pattern(next_line).num
    /\ current_art_text' = <<art_pattern(next_line).content>>
    /\ Consume
    /\ UNCHANGED <<pdf_ok, reader, pc, i, seen_articles, arts, returned, cli_vars, web_vars>>

\* 2. a new article: save the previous one, start the new one.
ArticleStart ==
    /\ AtLine
    /\ IsArticleLine(next_line)
    /\ ~is_footnote(next_line, art_pattern(next_line).content)
    /\ ~already_seen(art_pattern(next_line).num, seen_articles)
    /\ articles' = IF truthy(current_art_num)
                   THEN finalize(articles, current_art_num, current_art_text)
                   ELSE articles
    /\ current_art_num' = art_pattern(next_line).num
    /\ seen_articles' = seen_articles \cup {art_pattern(next_line).num}
    /\ current_art_text' = <<art_pattern(next_line).content>>
    /\ Consume
    /\ UNCHANGED <<pdf_ok, reader, pc, i, arts, returned, cli_vars, web_vars>>

\* else-branch: continuation of the current article.
ContinuationLine ==
    /\ AtLine
    /\ truthy(next_line)
    /\ ~structure_pattern(next_line)
    /\ ~art_pattern(next_line).ok
    /\ current_art_text' = IF truthy(current_art_num) /\ ~page_noise(next_line)
                           THEN Append(current_art_text, next_line)
                           ELSE current_art_text
    /\ Consume
    /\ UNCHANGED <<pdf_ok, reader, pc, i, current_art_num, seen_articles, articles,
                   arts, returned, cli_vars, web_vars>>

\* Return without the saving of the last article.
Return_no_save ==
    /\ pc = "page_loop"
    /\ i >= Len(reader)
    /\ arts' = articles
    /\ returned' = Append(returned, articles)
    /\ pc' = "loaded"
    /\ UNCHANGED <<pdf_ok, reader, i, lines, line, current_art_num, current_art_text,
                   seen_articles, articles, cli_vars, web_vars>>

\* The page loop is exhausted: save the last article, return articles; the
\* caller binds the result (arts = load_articles(PDF_PATH)).
Return ==
    /\ pc = "page_loop"
    /\ i >= Len(reader)
    /\ articles' = IF truthy(current_art_num)
                   THEN finalize(articles, current_art_num, current_art_text)
                   ELSE articles
    /\ arts' = articles'
    /\ returned' = Append(returned, articles')
    /\ pc' = "loaded"
    /\ UNCHANGED <<pdf_ok, reader, i, lines, line, current_art_num, current_art_text,
                   seen_articles, cli_vars, web_vars>>

Load ==
    \/ LoadFails
    \/ LoadStart
    \/ NextPage
    \/ PageFails
    \/ SkipEmptyPage
    \/ EndPage
    \/ BlankLine
    \/ StructureHeader
    \/ FootnoteLine
    \/ DuplicateLine
    \/ ArticleStart
    \/ ContinuationLine
    \/ Return

(***************************************************************************)
(* pdf_bot_new.py: load, answer the command line once, exit.  Running the  *)
(* program again starts a new process on the same document.                *)
(***************************************************************************)
Answer ==
    /\ pc = "loaded"
    /\ \E argv \in Argvs :
        /\ query' = join(" ", argv)
        /\ output' = get_answer(query', arts)
    /\ pc' = "exit_0"
    /\ UNCHANGED <<pdf_ok, reader, scan_vars, arts, returned, web_vars>>

Rerun ==
    /\ pc = "exit_0"
    /\ Len(returned) = 1
    /\ pc' = "start"
    /\ arts' = EmptyStore
    /\ query' = None
    /\ output' = None
    /\ UNCHANGED <<pdf_ok, reader, scan_vars, returned, web_vars>>

(***************************************************************************)
(* app1.py: the store is loaded at import, then the Flask server handles   *)
(* POST /chat requests, each in its own thread.                            *)
(***************************************************************************)
\* The server that has been started but serves before the store is loaded.
server_ready_early == pc \in {"page_loop", "line_loop", "loaded"}

\* app.run() comes after the module-level articles = load_articles(PDF_PATH).
server_ready == pc = "loaded"

\* chat without the test of the message.
chat_unchecked(user_message, store) == <<get_answer(user_message, store), 200>>

\* The body and status chat() returns for a message.
chat(user_message, store) ==
    IF ~truthy(user_message)
    THEN <<"Please say something!", 400>>
    ELSE <<get_answer(user_message, store), 200>>

\* A POST /chat request reaches handler h: user_message = request.json.get('message').
Receive(h) ==
    /\ server_ready
    /\ request[h] = NoRequest \/ response[h] # NoResponse
    /\ \E m \in Messages : request' = [request EXCEPT ![h] = m]
    /\ response' = [response EXCEPT ![h] = NoResponse]
    /\ UNCHANGED <<pdf_ok, reader, pc, scan_vars, arts, returned, cli_vars>>

\* Handler h answers its request from the global store.
Chat(h) ==
    /\ server_ready
    /\ request[h] # NoRequest
    /\ response[h] = NoResponse
    /\ response' = [response EXCEPT ![h] = chat(request[h], arts)]
    /\ UNCHANGED <<pdf_ok, reader, pc, scan_vars, arts, returned, cli_vars, request>>

Next == Load \/ Answer \/ Rerun

Spec == Init /\ [][Next]_vars

\* app1.py on a document with one page after the front matter, or with two
\* of which the second cannot be parsed.
AppInit ==
    /\ Init
    /\ Len(reader) \in {0, start_page_index + 1, start_page_index + 2}
    /\ Len(reader) > 0 => reader[1] = ""
    /\ Len(reader) = start_page_index + 2 => reader[start_page_index + 2] = PageError

AppNext == Load \/ (\E h \in Handlers : Receive(h)) \/ (\E h \in Handlers : Chat(h))

SpecApp == AppInit /\ [][AppNext]_vars

(***************************************************************************)
(* Properties.                                                             *)
(***************************************************************************)
Scanning == pc \in {"page_loop", "line_loop"}

Answered == pc = "exit_0"

\* C1: first occurrence wins.  Once an id is a key of the store, no later
\* step of the scan removes it or changes its text, whatever lines follow
\* (a later start line with the same id included), and the store returned
\* holds the same text for it.
C1_FirstOccurrenceWins ==
    [][Scanning =>
        /\ \A k \in DOMAIN articles : k \in DOMAIN articles' /\ articles'[k] = articles[k]
        /\ pc' = "loaded" =>
              \A k \in DOMAIN articles : k \in DOMAIN arts' /\ arts'[k] = articles[k]]_vars

\* A start line with a bracketed prefix, carrying an id that is already a
\* key of the store and another text, has been processed.
C1_Witness ==
    /\ pc = "line_loop"
    /\ art_pattern(line).ok
    /\ art_pattern(line).prefix # None
    /\ art_pattern(line).num \in DOMAIN articles
    /\ articles[art_pattern(line).num] # art_pattern(line).content

FootnoteStems == {"Subs.", "Ins.", "Omitted", "Rep.", "Added", "Substituted", "Inserted"}

\* Exclusion A as the specification words it: number, period, whitespace,
\* then one of the keyword stems, literally.
ExclusionA(l) ==
    LET d == run(l, 1, Digits)
        w == run(l, d + 2, Whitespace)
    IN  /\ d >= 1
        /\ At(l, d + 1) = "."
        /\ w >= 1
        /\ \E stem \in FootnoteStems : startswith(l, d + 2 + w, stem)

ExclusionB(l) ==
    contains(art_pattern(l).content, "Amendment) Act") \/ contains(art_pattern(l).content, "w.e.f.")

ExclusionC(l) ==
    \A k \in 1..Len(art_pattern(l).content) :
        At(art_pattern(l).content, k) \notin UpperLetters \cup LowerLetters

Excluded(l) == IsArticleLine(l) /\ (ExclusionA(l) \/ ExclusionB(l) \/ ExclusionC(l))

\* C2: footnote rejection.  Processing an article-start line that meets
\* exclusion A, B or C changes neither the current article id, nor its
\* accumulated text, nor the seen set, nor the store.
C2_FootnoteRejected ==
    [][(AtLine /\ Excluded(next_line)) =>
        UNCHANGED <<current_art_num, current_art_text, seen_articles, articles>>]_vars

\* An amendment-history line (exclusion B) has been processed while an
\* article was in progress.
C2_Witness ==
    /\ pc = "line_loop"
    /\ Excluded(line)
    /\ ExclusionB(line)
    /\ ~ExclusionA(line)
    /\ truthy(current_art_num)
    /\ current_art_text # <<>>

\* C3: a structure header read while an article is in progress stores that
\* article under its id with its newline-joined, trimmed text and leaves no
\* current article; and while there is no current article, a line that
\* starts none leaves the store unchanged.
C3_HeaderFinalizes ==
    [][/\ (AtLine /\ structure_pattern(next_line) /\ truthy(current_art_num)) =>
            /\ DOMAIN articles' = DOMAIN articles \cup {current_art_num}
            /\ articles'[current_art_num] = strip(join("\n", current_art_text))
            /\ \A k \in DOMAIN articles \ {current_art_num} : articles'[k] = articles[k]
            /\ current_art_num' = None
            /\ current_art_text' = <<>>
       /\ (AtLine /\ ~truthy(current_art_num) /\ ~truthy(current_art_num')) =>
            /\ articles' = articles
            /\ current_art_text' = <<>>]_vars

\* The article started on one page holds two lines, and the header that
\* opens the next page has just closed it.
C3_Witness ==
    /\ pc = "line_loop"
    /\ i = start_page_index + 1
    /\ reader[i] = "21. Life\nNo person"
    /\ line = "PART IV"
    /\ current_art_num = None
    /\ DOMAIN articles = {"21"}
    /\ articles["21"] = "Life\nNo person"

\* C4: for every key id of the store, the answer to "Article " + id is the
\* header "Article <ID>", a blank line, and the stored text.
C4_PresentIdAnswered ==
    Answered =>
        \A id \in DOMAIN arts :
            query = "Article " \o id =>
                output = "Article " \o upper(id) \o "\n\n" \o arts[id]

C4_Witness ==
    /\ Answered
    /\ query = "Article 21A"
    /\ "21A" \in DOMAIN arts
    /\ "21" \in DOMAIN arts

\* Article ids (digits, optional upper-case letter) the command lines name.
QueryIds == {"21", "21A", "22", "7"}

\* C5: for every article id that is no key of the store, the answer to
\* "article " + id is the not-found message.
C5_AbsentIdNotFound ==
    Answered =>
        \A id \in QueryIds :
            (id \notin DOMAIN arts /\ query = "article " \o id) => output = NOT_FOUND

C5_Witness ==
    /\ Answered
    /\ query = "article 21A"
    /\ "21" \in DOMAIN arts
    /\ "21A" \notin DOMAIN arts

\* C6: a query that yields no lookup key is answered with the fallback
\* message, which is not the not-found message; the not-found message is
\* the answer only when a key was extracted and is no key of the store.
C6_FallbackWhenNoKey ==
    Answered =>
        LET key == lookup_key(normalize(query))
        IN  /\ FALLBACK # NOT_FOUND
            /\ key = None => output = FALLBACK
            /\ query = "what is democracy" => output = FALLBACK
            /\ output = NOT_FOUND => (key # None /\ key \notin DOMAIN arts)

C6_Witness ==
    /\ Answered
    /\ query = "what is democracy"
    /\ output = FALLBACK
    /\ arts # EmptyStore

\* C7: the answer does not depend on the letter case of the query.
C7_CaseInsensitive ==
    Answered =>
        /\ get_answer(upper(query), arts) = output
        /\ get_answer(lower(query), arts) = output

C7_Witness ==
    /\ Answered
    /\ query = "ARTICLE 21A"
    /\ "21A" \in DOMAIN arts
    /\ output = "Article 21A\n\n" \o arts["21A"]

\* C8: a bare id is answered as "Article " + id is.
C8_BareIdAsKeyword ==
    Answered =>
        \A id \in QueryIds \cup {"21a"} :
            query = id => output = get_answer("Article " \o id, arts)

C8_Witness ==
    /\ Answered
    /\ query = "21A"
    /\ "21A" \in DOMAIN arts

\* C9: the second run of load_articles over the same document returns the
\* store the first run returned.
C9_RerunSameStore == Len(returned) = 2 => returned[2] = returned[1]

C9_Witness ==
    /\ Len(returned) = 2
    /\ Cardinality(DOMAIN returned[1]) >= 2
    /\ Cardinality(seen_articles) >= 2

\* C10: build once, read many.  A request is received or answered only
\* after load_articles has returned; from then on the store is the one it
\* returned; and every response to a non-empty message is get_answer of
\* that message and that store.
C10_BuildOnceReadMany ==
    /\ (\E h \in Handlers : request[h] # NoRequest \/ response[h] # NoResponse) =>
            pc = "loaded" /\ Len(returned) = 1
    /\ pc = "loaded" => arts = returned[1]
    /\ \A h \in Handlers :
            (response[h] # NoResponse /\ truthy(request[h])) =>
                response[h] = <<get_answer(request[h], returned[1]), 200>>

\* One handler has answered "Article 21" from the store while another
\* holds a request not yet answered.
C10_Witness ==
    /\ \E h \in Handlers : request[h] # NoRequest /\ response[h] = NoResponse
    /\ \E h \in Handlers :
            /\ request[h] = "Article 21"
            /\ "21" \in DOMAIN arts
            /\ response[h] = <<"Article 21\n\n" \o arts["21"], 200>>

Failed == pc = "exit_1"

\* The document cannot be opened, or a page the scan reaches cannot be parsed.
Unreadable ==
    \/ ~pdf_ok
    \/ \E k \in (start_page_index + 1)..Len(reader) : reader[k] = PageError

\* C11: when the document cannot be opened or parsed, the program never
\* reaches the state in which it answers (the store is never bound, no
\* command line is answered, no request is received or answered), and once
\* it has failed no store built so far has been used.
C11_UnreadableNeverServes ==
    /\ Unreadable =>
            /\ pc \notin {"loaded", "exit_0"}
            /\ returned = <<>>
            /\ arts = EmptyStore
            /\ output = None
            /\ \A h \in Handlers : request[h] = NoRequest /\ response[h] = NoResponse
    /\ Failed => Unreadable

\* The scan has an article of two lines in progress when the next page
\* fails to parse.
C11_Witness ==
    /\ Failed
    /\ pdf_ok
    /\ truthy(current_art_num)
    /\ Len(current_art_text) >= 2
    /\ arts = EmptyStore

PROMPT == "Please say something!"

\* C12: a request whose message is absent or empty is answered with status
\* 400 and the prompt; every other request with the answer of get_answer to
\* its message and the store.
C12_ChatContract ==
    \A h \in Handlers :
        response[h] # NoResponse =>
            IF request[h] = None \/ request[h] = ""
            THEN response[h] = <<PROMPT, 400>>
            ELSE response[h] = <<get_answer(request[h], arts), 200>>

\* A request with no usable message has been answered with the prompt, and
\* a request with a blank message by a handler as well.
C12_Witness ==
    \E h \in Handlers :
        /\ request[h] \in {None, ""}
        /\ response[h] = <<PROMPT, 400>>
        /\ \E g \in Handlers : request[g] = " 21 " /\ response[g] # NoResponse

Loaded == pc = "loaded"

NonBlank(l) == l # ""

\* The stripped, non-blank lines of a page text, in order.
StrippedLines(text) ==
    LET ls == split(text, "\n")
    IN  SelectSeq([k \in 1..Len(ls) |-> strip(ls[k])], NonBlank)

\* The stripped, non-blank lines of the pages k, k + 1, ... of the document.
RECURSIVE LinesFrom(_)
LinesFrom(k) ==
    IF k > Len(reader) THEN <<>> ELSE StrippedLines(reader[k]) \o LinesFrom(k + 1)

\* The lines of the pages at and after the start page.
ScannedLines == LinesFrom(start_page_index + 1)

\* Line p of L is a start line that no footnote heuristic rejects.
Candidate(L, p) == IsArticleLine(L[p]) /\ ~is_footnote(L[p], art_pattern(L[p]).content)

\* Line p is the first candidate with its id: the accepted start line.
Accepted(L, p) ==
    /\ Candidate(L, p)
    /\ \A q \in 1..(p - 1) : Candidate(L, q) => art_pattern(L[q]).num # art_pattern(L[p]).num

\* Line p ends the article in progress.
Boundary(L, p) == Accepted(L, p) \/ structure_pattern(L[p])

PureDigits(l) == l # "" /\ \A k \in 1..Len(l) : At(l, k) \in Digits

TwoDigitGroups(l) ==
    \E a \in 1..Len(l), b \in 1..Len(l) :
        /\ a < b /\ b < Len(l)
        /\ \A k \in 1..a : At(l, k) \in Digits
        /\ \A k \in (a + 1)..b : At(l, k) \in Whitespace
        /\ \A k \in (b + 1)..Len(l) : At(l, k) \in Digits

\* Line p is a continuation line that is kept.
Kept(L, p) ==
    /\ ~structure_pattern(L[p])
    /\ ~art_pattern(L[p]).ok
    /\ ~PureDigits(L[p])
    /\ ~TwoDigitGroups(L[p])

\* The kept continuation lines from p up to the next boundary.
RECURSIVE BodyFrom(_, _)
BodyFrom(L, p) ==
    IF p > Len(L) \/ Boundary(L, p) THEN <<>>
    ELSE (IF Kept(L, p) THEN <<L[p]>> ELSE <<>>) \o BodyFrom(L, p + 1)

\* The text of the article whose accepted start line is line q.
ExpectedText(L, q) ==
    strip(join("\n", <<art_pattern(L[q]).content>> \o BodyFrom(L, q + 1)))

\* C13: every key of the returned store is the id of an accepted start
\* line, and its text is the trimmed newline-join of the content of that
\* line and the kept continuation lines read up to the next accepted start
\* line or structure header; no other line is part of it.
C13_TextIsSegment ==
    Loaded =>
        LET L == ScannedLines
        IN  \A k \in DOMAIN arts :
                \E q \in 1..Len(L) :
                    /\ Accepted(L, q)
                    /\ art_pattern(L[q]).num = k
                    /\ arts[k] = ExpectedText(L, q)

\* Two pages: a page number inside an article is dropped, a line before the
\* first article and a line after a header belong to no entry.
C13_Witness ==
    /\ Loaded
    /\ Len(reader) = start_page_index + 2
    /\ reader[start_page_index + 1] = "3[CHAPTER II\ntext"
    /\ reader[start_page_index + 2] = "3[21A. Edu\n12\nfree"
    /\ arts = [k \in {"21A"} |-> "Edu\nfree"]

\* C14: an article-start line with an unseen id that meets none of the
\* exclusions A (keyword stem, literally), B and C begins a new article: its
\* id becomes the current article and is marked seen, and its content opens
\* the accumulated text.
C14_OnlyLiteralStemsDiscard ==
    [][(/\ AtLine
        /\ IsArticleLine(next_line)
        /\ ~Excluded(next_line)
        /\ art_pattern(next_line).num \notin seen_articles)
       => (/\ current_art_num' = art_pattern(next_line).num
           /\ current_art_text' = <<art_pattern(next_line).content>>
           /\ art_pattern(next_line).num \in seen_articles')]_vars

Keywords == {"article", "art"}

\* The ids a keyword reference at position p of q captures, when exactly the
\* keywords of the set dotted may be followed by a period.
ReferencesAt(q, p, dotted) ==
    { spaced_id_at(q, p + Len(kw) + IF dot THEN 1 ELSE 0) :
        <<kw, dot>> \in { x \in Keywords \X BOOLEAN :
                            /\ startswith(q, p, x[1])
                            /\ x[2] => (x[1] \in dotted /\ At(q, p + Len(x[1])) = ".") } }
    \ {None}

\* The id of the leftmost keyword reference of q, None when q has none.
KeywordReference(q, dotted) ==
    LET at == { p \in 1..Len(q) : ReferencesAt(q, p, dotted) # {} }
    IN  IF at = {} THEN None
        ELSE CHOOSE id \in ReferencesAt(q, CHOOSE p \in at : \A r \in at : p <= r, dotted) : TRUE

\* The answer is the lookup of the upper-cased id of the keyword reference,
\* for every query that has one.
AnswersKeywordReference(dotted) ==
    Answered =>
        LET id == KeywordReference(normalize(query), dotted)
        IN  id # None => output = lookup(upper(id), arts)

\* C15 as stated: "article" and "art" may both be followed by a period.
C15_PeriodAfterEitherKeyword == AnswersKeywordReference(Keywords)

\* C15, amended: a keyword reference is "article", optional whitespace and
\* an id, or "art", an optional period, optional whitespace and an id,
\* anywhere in the normalized query; its id, upper-cased, is the lookup key.
\* "article" followed by a period is no keyword reference: the query
\* "article. 21" gets the fallback message, "art. 21" the answer of key 21.
C15_PeriodAfterArtOnly ==
    /\ AnswersKeywordReference({"art"})
    /\ Answered =>
          /\ query = "article. 21" => output = FALLBACK
          /\ query = "art. 21" => output = lookup("21", arts)

\* A reference with a period after "art", in the middle of the query, has
\* been answered with the stored article.
C15_Witness ==
    /\ Answered
    /\ query = "show art. 21a"
    /\ "21A" \in DOMAIN arts
    /\ output = "Article 21A\n\n" \o arts["21A"]

\* C16: when load_articles has returned, the article that was in progress
\* after the last line of the last page is in the returned store under its
\* id, with its newline-joined, trimmed text; and every id of the seen set
\* is a key of the returned store.
C16_LastArticleStored ==
    Loaded =>
        /\ truthy(current_art_num) =>
              /\ current_art_num \in DOMAIN arts
              /\ arts[current_art_num] = strip(join("\n", current_art_text))
        /\ seen_articles \subseteq DOMAIN arts
        /\ returned[Len(returned)] = arts

\* The scan ended inside the second article, which had a continuation line.
C16_Witness ==
    /\ Loaded
    /\ truthy(current_art_num)
    /\ Len(current_art_text) >= 2
    /\ Cardinality(seen_articles) >= 2
    /\ arts[current_art_num] = strip(join("\n", current_art_text))

\* A step of the page loop: a page is fetched, skipped or left.
PageStep == (pc = "page_loop" /\ i < Len(reader)) \/ (pc = "line_loop" /\ lines = <<>>)

\* A continuation line that is neither a page number nor a page artifact.
PlainLine(l) ==
    /\ l # ""
    /\ ~structure_pattern(l)
    /\ ~art_pattern(l).ok
    /\ ~PureDigits(l)
    /\ ~TwoDigitGroups(l)

\* C17: a step of the page loop, the skipping of a page without text
\* included, changes neither the current article id, nor the accumulated
\* text, nor the seen set, nor the store; and a plain continuation line is
\* appended to the article in progress on whichever page it is read.
C17_PagesKeepState ==
    [][/\ PageStep =>
            UNCHANGED <<current_art_num, current_art_text, seen_articles, articles>>
       /\ (AtLine /\ truthy(current_art_num) /\ PlainLine(next_line)) =>
            /\ current_art_text' = Append(current_art_text, next_line)
            /\ UNCHANGED <<current_art_num, seen_articles, articles>>]_vars

\* A page without text has been skipped while an article, started on the
\* page before, was in progress.
C17_Witness ==
    /\ pc = "page_loop"
    /\ i = start_page_index + 2
    /\ reader[i] = ""
    /\ current_art_num = "21"
    /\ current_art_text = <<"Life", "No person">>
    /\ articles = EmptyStore

\* The ids of the start lines, on the pages at and after the start page,
\* that no footnote heuristic rejects.
ScannedIds ==
    LET L == ScannedLines
    IN  { art_pattern(L[q]).num : q \in { p \in 1..Len(L) : Candidate(L, p) } }

\* C18: the scan never reads a page before the start page; the keys of the
\* returned store are exactly the ids of the accepted start lines of the
\* pages from the start page on, whatever the earlier pages contain: an id
\* whose start line is on an earlier page only is no key, and a document
\* that ends before the start page gives the empty store.
C18_ScanFromStartPage ==
    /\ Scanning => i >= start_page_index
    /\ pc = "line_loop" => i < Len(reader)
    /\ Loaded =>
          /\ DOMAIN arts = ScannedIds
          /\ "9" \notin DOMAIN arts
          /\ Len(reader) <= start_page_index => arts = EmptyStore

\* The pages before the start page list Article 21, no later page starts
\* it, and a later page starts Article 22: only 22 is extracted.
C18_Witness ==
    /\ Loaded
    /\ Len(reader) > start_page_index
    /\ reader[start_page_index] = "CONTENTS\n21. Life\n9. Front"
    /\ "21" \notin DOMAIN arts
    /\ "22" \in DOMAIN arts

InProgress == IF truthy(current_art_num) THEN {current_art_num} ELSE {}

\* C19: between the lines of the scan, the seen set is the set of the store
\* keys together with the id of the article in progress, and that id is no
\* store key yet, so that finalizing it writes a new key.
C19_SeenIsStoredOrCurrent ==
    Scanning =>
        /\ seen_articles = DOMAIN articles \cup InProgress
        /\ DOMAIN articles \cap InProgress = {}

\* One article is stored and another one is in progress.
C19_Witness ==
    /\ Scanning
    /\ truthy(current_art_num)
    /\ DOMAIN articles # {}
    /\ seen_articles = DOMAIN articles \cup {current_art_num}
    /\ Cardinality(seen_articles) >= 2

\* Line l is a start line carrying the id of the article in progress.
RestatesCurrent(l) ==
    /\ truthy(current_art_num)
    /\ IsArticleLine(l)
    /\ art_pattern(l).num = current_art_num

\* C20: a start line whose id is the id of the article in progress changes
\* neither the current id, nor the accumulated text, nor the seen set, nor
\* the store; and a plain continuation line read right after it is appended
\* to that same article.
C20_InProgressRestartDiscarded ==
    [][/\ (AtLine /\ RestatesCurrent(next_line)) =>
            UNCHANGED <<current_art_num, current_art_text, seen_articles, articles>>
       /\ (AtLine /\ RestatesCurrent(line) /\ PlainLine(next_line)) =>
            /\ current_art_text' = Append(current_art_text, next_line)
            /\ current_art_num' = current_art_num
            /\ articles' = articles]_vars

\* Article 21 is in progress; its restatement "21. Dup" has been read and
\* left out, and the line after it has been appended.
C20_Witness ==
    /\ pc = "line_loop"
    /\ reader[i + 1] = "21. Life\n1. Ins. by\n21. Dup\nrest"
    /\ line = "rest"
    /\ current_art_num = "21"
    /\ current_art_text = <<"Life", "rest">>
    /\ articles = EmptyStore

====
